---- MODULE Spec2Model ----
(***************************************************************************)
(* PHAR-MAA Twilio Gateway (src/app.py): a FastAPI relay that receives     *)
(* Twilio webhooks, forwards a JSON envelope to LOCAL_BACKEND_URL and      *)
(* answers Twilio with TwiML.                                              *)
(*                                                                         *)
(* Python values are tagged records: PyStr(s) is a str, PyNone is None and *)
(* Absent marks a key that a mapping does not hold.  Each inbound POST is  *)
(* a request r; its handler runs up to `await client.post(...)` in one     *)
(* step and from the return of that await to its return statement in a     *)
(* second step, so handlers of different requests interleave at the await. *)
(***************************************************************************)
EXTENDS Integers, Sequences, FiniteSets, TLC

\* Number of inbound webhook requests the model follows.
NumRequests == 2

Requests == 1..NumRequests

VARIABLES LOCAL_BACKEND_URL, pc, route, form, outbound, outcome, response,
          log, lastProbe

vars == <<LOCAL_BACKEND_URL, pc, route, form, outbound, outcome, response,
          log, lastProbe>>

-----------------------------------------------------------------------------
\* Python values

PyNone == [t |-> "none", s |-> ""]

PyStr(x) == [t |-> "str", s |-> x]

Absent == [t |-> "absent", s |-> ""]

\* Truth value of a Python value as tested by `if v:` / `if not v:`.
Truthy(v) == v.t = "str" /\ v.s # ""

\* mapping.get(key, default)
Get(d, key, default) == IF d[key] = Absent THEN default ELSE d[key]

-----------------------------------------------------------------------------
\* Inputs

WHATSAPP == "/twilio/whatsapp"

SMS == "/twilio/sms"

\* os.getenv("LOCAL_BACKEND_URL"): None when unset, else the string.
UrlValues == {PyNone, PyStr(""), PyStr("http://backend")}

\* The form of a request whose body could not be parsed: request.form() raises.
BadForm == [ok |-> FALSE, From |-> Absent, Body |-> Absent, MediaUrl0 |-> Absent]

NoForm == [ok |-> FALSE, From |-> PyNone, Body |-> PyNone, MediaUrl0 |-> PyNone]

\* Parsed forms: From absent, empty or set; Body and MediaUrl0 absent or set.
\* The field values include the channel names themselves.
Forms ==
    [ok : {TRUE}, From : {Absent, PyStr(""), PyStr("whatsapp:+1")},
     Body : {Absent}, MediaUrl0 : {Absent}]
    \cup {[ok |-> TRUE, From |-> PyStr("sms"), Body |-> PyStr("whatsapp"),
           MediaUrl0 |-> PyStr("http://m/1")]}
    \cup {BadForm}

\* Bodies of a downstream reply: not JSON, JSON that is not an object, and
\* JSON objects {} / {"response": null} / {"response": "<text>"}.
NoBody == [kind |-> "text", obj |-> [response |-> Absent]]

ListBody == [kind |-> "list", obj |-> [response |-> Absent]]

ObjBody(v) == [kind |-> "object", obj |-> [response |-> v]]

ReplyTexts == {"Hello", "a<b&c"}

Replied(st, b) == [exc |-> "", status |-> st, body |-> b]

Raised(e) == [exc |-> e, status |-> 0, body |-> NoBody]

NoOutcome == [exc |-> "pending", status |-> 0, body |-> NoBody]

\* What `await client.post(...)` can produce: an httpx exception (the
\* downstream is unreachable, or the 30 s timeout expires) or a response.
Outcomes ==
    {Raised("ConnectError"), Raised("ReadTimeout")}
    \cup {Replied(200, b) : b \in {NoBody, ListBody, ObjBody(Absent),
                                    ObjBody(PyNone), ObjBody(PyStr(""))}}
    \cup {Replied(200, ObjBody(PyStr(x))) : x \in ReplyTexts}
    \cup {Replied(201, ObjBody(PyStr("Hello"))), Replied(500, NoBody)}

-----------------------------------------------------------------------------
\* Exceptions: cls is the class, msg is str(e).

NoExc == [cls |-> "", msg |-> ""]

FormError == [cls |-> "Exception", msg |-> "form parse error"]

MissingSender == [cls |-> "HTTPException", msg |-> "400: Missing sender"]

HttpxError(name) == [cls |-> name, msg |-> name]

JSONDecodeError == [cls |-> "JSONDecodeError", msg |-> "Expecting value"]

AttributeError == [cls |-> "AttributeError", msg |-> "'list' object has no attribute 'get'"]

-----------------------------------------------------------------------------
\* Log records and responses

Info(m) == [level |-> "INFO", msg |-> m]

Error(m) == [level |-> "ERROR", msg |-> m]

\* PlainTextResponse(content=..., media_type=...): the status defaults to 200.
PlainTextResponse(content, media_type) ==
    [status |-> 200, media_type |-> media_type, content |-> content]

EmptyAck ==
    PlainTextResponse("<?xml version=\"1.0\" encoding=\"UTF-8\"?><Response></Response>",
                      "application/xml")

\* html.escape of the reply texts of the model.
Escaped(x) == IF x = "a<b&c" THEN "a&lt;b&amp;c" ELSE x

\* Variant: the reply text is escaped before it is interpolated.
TwimlMessageEscaped(reply_message) ==
    PlainTextResponse("<?xml version=\"1.0\" encoding=\"UTF-8\"?>"
                      \o "<Response><Message>" \o Escaped(reply_message.s)
                      \o "</Message></Response>",
                      "application/xml")

\* The f-string of the TwiML reply: the reply text is interpolated as it is.
TwimlMessage(reply_message) ==
    PlainTextResponse("<?xml version=\"1.0\" encoding=\"UTF-8\"?>"
                      \o "<Response><Message>" \o reply_message.s
                      \o "</Message></Response>",
                      "application/xml")

\* What the framework answers when an exception leaves the handler.
Propagated(e) ==
    IF e.cls = "HTTPException"
    THEN [status |-> 400, media_type |-> "application/json",
          content |-> "{\"detail\":\"Missing sender\"}"]
    ELSE [status |-> 500, media_type |-> "text/plain",
          content |-> "Internal Server Error"]

\* Variant: `except HTTPException as e`.
CaughtByExceptHTTPException(e) == e.cls = "HTTPException"

\* `except Exception as e`: every exception of the model derives from Exception.
CaughtByExceptException(e) == TRUE

\* Variant: the guard on LOCAL_BACKEND_URL is missing.
ForwardingAlways(url) == TRUE

\* if LOCAL_BACKEND_URL:
ForwardingEnabled(url) == Truthy(url)

\* Variant: if response.is_success:
StatusIs2xx(status) == status \in 200..299

\* if response.status_code == 200:
StatusOk(status) == status = 200

\* f"{LOCAL_BACKEND_URL}/api/messages/ingest"
IngestUrl(url) == url.s \o "/api/messages/ingest"

-----------------------------------------------------------------------------
\* whatsapp_webhook

\* Variant: the except block logs and re-raises.
whatsapp_except_reraise(e) ==
    [log |-> <<Error("WhatsApp webhook error: " \o e.msg)>>,
     response |-> Propagated(e)]

\* except Exception as e: log the error, return the empty TwiML.
whatsapp_except(e) ==
    IF CaughtByExceptException(e)
    THEN [log |-> <<Error("WhatsApp webhook error: " \o e.msg)>>,
          response |-> EmptyAck]
    ELSE [log |-> <<>>, response |-> Propagated(e)]

whatsapp_payload(f) ==
    [sender |-> Get(f, "From", PyStr("")),
     content |-> Get(f, "Body", PyStr("")),
     channel |-> "whatsapp",
     media_url |-> Get(f, "MediaUrl0", PyNone)]

\* Variant: the sender is not validated.
whatsapp_to_post_unvalidated(f) ==
    IF ~f.ok
    THEN [log |-> <<>>, exc |-> FormError]
    ELSE [log |-> <<Info("WhatsApp message from " \o Get(f, "From", PyStr("")).s)>>,
          exc |-> NoExc]

\* The handler from its entry to the forwarding decision.
whatsapp_to_post(f) ==
    IF ~f.ok
    THEN [log |-> <<>>, exc |-> FormError]
    ELSE LET sender == Get(f, "From", PyStr(""))
             received == <<Info("WhatsApp message from " \o sender.s)>>
         IN  IF ~Truthy(sender)
             THEN [log |-> received, exc |-> MissingSender]
             ELSE [log |-> received, exc |-> NoExc]

\* The handler from the return of client.post to its return statement.
whatsapp_after_post(o) ==
    IF o.exc # ""
    THEN whatsapp_except(HttpxError(o.exc))
    ELSE LET forwarded == <<Info("Forwarded to backend: " \o ToString(o.status))>>
             failed(e) == [log |-> forwarded \o whatsapp_except(e).log,
                           response |-> whatsapp_except(e).response]
         IN  IF StatusOk(o.status)
             THEN IF o.body.kind = "text" THEN failed(JSONDecodeError)
                  ELSE IF o.body.kind = "list" THEN failed(AttributeError)
                  ELSE LET reply_message == Get(o.body.obj, "response", PyStr(""))
                       IN  IF Truthy(reply_message)
                           THEN [log |-> forwarded,
                                 response |-> TwimlMessage(reply_message)]
                           ELSE [log |-> forwarded, response |-> EmptyAck]
             ELSE [log |-> forwarded, response |-> EmptyAck]

whatsapp_webhook(r) ==
    /\ pc[r] = "idle"
    /\ \E f \in Forms :
         LET s == whatsapp_to_post(f) IN
         /\ route' = [route EXCEPT ![r] = WHATSAPP]
         /\ form' = [form EXCEPT ![r] = f]
         /\ IF s.exc # NoExc
            THEN /\ log' = [log EXCEPT ![r] = s.log \o whatsapp_except(s.exc).log]
                 /\ response' = [response EXCEPT
                                   ![r] = Append(@, whatsapp_except(s.exc).response)]
                 /\ pc' = [pc EXCEPT ![r] = "done"]
                 /\ UNCHANGED outbound
            ELSE IF ForwardingEnabled(LOCAL_BACKEND_URL)
            THEN /\ log' = [log EXCEPT ![r] = s.log]
                 /\ outbound' = [outbound EXCEPT
                                   ![r] = Append(@, [url |-> IngestUrl(LOCAL_BACKEND_URL),
                                                     json |-> whatsapp_payload(f)])]
                 /\ pc' = [pc EXCEPT ![r] = "awaiting"]
                 /\ UNCHANGED response
            ELSE /\ log' = [log EXCEPT ![r] = s.log]
                 /\ response' = [response EXCEPT ![r] = Append(@, EmptyAck)]
                 /\ pc' = [pc EXCEPT ![r] = "done"]
                 /\ UNCHANGED outbound
    /\ UNCHANGED <<LOCAL_BACKEND_URL, outcome, lastProbe>>

\* Variant: a failed call is attempted a second time.
whatsapp_webhook_reply_retry(r) ==
    /\ pc[r] = "awaiting"
    /\ route[r] = WHATSAPP
    /\ \E o \in Outcomes :
         LET s == whatsapp_after_post(o) IN
         IF (o.exc # "" \/ ~StatusOk(o.status)) /\ Len(outbound[r]) < 2
         THEN /\ outbound' = [outbound EXCEPT ![r] = Append(@, @[1])]
              /\ outcome' = [outcome EXCEPT ![r] = o]
              /\ UNCHANGED <<log, response, pc>>
         ELSE /\ outcome' = [outcome EXCEPT ![r] = o]
              /\ log' = [log EXCEPT ![r] = @ \o s.log]
              /\ response' = [response EXCEPT ![r] = Append(@, s.response)]
              /\ pc' = [pc EXCEPT ![r] = "done"]
              /\ UNCHANGED outbound
    /\ UNCHANGED <<LOCAL_BACKEND_URL, route, form, lastProbe>>

whatsapp_webhook_reply(r) ==
    /\ pc[r] = "awaiting"
    /\ route[r] = WHATSAPP
    /\ \E o \in Outcomes :
         LET s == whatsapp_after_post(o) IN
         /\ outcome' = [outcome EXCEPT ![r] = o]
         /\ log' = [log EXCEPT ![r] = @ \o s.log]
         /\ response' = [response EXCEPT ![r] = Append(@, s.response)]
         /\ pc' = [pc EXCEPT ![r] = "done"]
    /\ UNCHANGED <<LOCAL_BACKEND_URL, route, form, outbound, lastProbe>>

-----------------------------------------------------------------------------
\* sms_webhook

\* Variant: the except block logs the error twice.
sms_except_twice(e) ==
    [log |-> <<Error("SMS webhook error: " \o e.msg),
               Error("SMS webhook error: " \o e.msg)>>,
     response |-> EmptyAck]

\* except Exception as e: log the error, return the empty TwiML.
sms_except(e) ==
    IF CaughtByExceptException(e)
    THEN [log |-> <<Error("SMS webhook error: " \o e.msg)>>,
          response |-> EmptyAck]
    ELSE [log |-> <<>>, response |-> Propagated(e)]

\* Variant: the payload copied from the WhatsApp handler with its channel.
sms_payload_copied(f) ==
    [sender |-> Get(f, "From", PyStr("")),
     content |-> Get(f, "Body", PyStr("")),
     channel |-> "whatsapp"]

sms_payload(f) ==
    [sender |-> Get(f, "From", PyStr("")),
     content |-> Get(f, "Body", PyStr("")),
     channel |-> "sms"]

sms_to_post(f) ==
    IF ~f.ok
    THEN [log |-> <<>>, exc |-> FormError]
    ELSE LET sender == Get(f, "From", PyStr(""))
             received == <<Info("SMS message from " \o sender.s)>>
         IN  IF ~Truthy(sender)
             THEN [log |-> received, exc |-> MissingSender]
             ELSE [log |-> received, exc |-> NoExc]

sms_after_post(o) ==
    IF o.exc # ""
    THEN sms_except(HttpxError(o.exc))
    ELSE LET forwarded == <<Info("Forwarded to backend: " \o ToString(o.status))>>
             failed(e) == [log |-> forwarded \o sms_except(e).log,
                           response |-> sms_except(e).response]
         IN  IF StatusOk(o.status)
             THEN IF o.body.kind = "text" THEN failed(JSONDecodeError)
                  ELSE IF o.body.kind = "list" THEN failed(AttributeError)
                  ELSE LET reply_message == Get(o.body.obj, "response", PyStr(""))
                       IN  IF Truthy(reply_message)
                           THEN [log |-> forwarded,
                                 response |-> TwimlMessage(reply_message)]
                           ELSE [log |-> forwarded, response |-> EmptyAck]
             ELSE [log |-> forwarded, response |-> EmptyAck]

sms_webhook(r) ==
    /\ pc[r] = "idle"
    /\ \E f \in Forms :
         LET s == sms_to_post(f) IN
         /\ route' = [route EXCEPT ![r] = SMS]
         /\ form' = [form EXCEPT ![r] = f]
         /\ IF s.exc # NoExc
            THEN /\ log' = [log EXCEPT ![r] = s.log \o sms_except(s.exc).log]
                 /\ response' = [response EXCEPT
                                   ![r] = Append(@, sms_except(s.exc).response)]
                 /\ pc' = [pc EXCEPT ![r] = "done"]
                 /\ UNCHANGED outbound
            ELSE IF ForwardingEnabled(LOCAL_BACKEND_URL)
            THEN /\ log' = [log EXCEPT ![r] = s.log]
                 /\ outbound' = [outbound EXCEPT
                                   ![r] = Append(@, [url |-> IngestUrl(LOCAL_BACKEND_URL),
                                                     json |-> sms_payload(f)])]
                 /\ pc' = [pc EXCEPT ![r] = "awaiting"]
                 /\ UNCHANGED response
            ELSE /\ log' = [log EXCEPT ![r] = s.log]
                 /\ response' = [response EXCEPT ![r] = Append(@, EmptyAck)]
                 /\ pc' = [pc EXCEPT ![r] = "done"]
                 /\ UNCHANGED outbound
    /\ UNCHANGED <<LOCAL_BACKEND_URL, outcome, lastProbe>>

sms_webhook_reply(r) ==
    /\ pc[r] = "awaiting"
    /\ route[r] = SMS
    /\ \E o \in Outcomes :
         LET s == sms_after_post(o) IN
         /\ outcome' = [outcome EXCEPT ![r] = o]
         /\ log' = [log EXCEPT ![r] = @ \o s.log]
         /\ response' = [response EXCEPT ![r] = Append(@, s.response)]
         /\ pc' = [pc EXCEPT ![r] = "done"]
    /\ UNCHANGED <<LOCAL_BACKEND_URL, route, form, outbound, lastProbe>>

-----------------------------------------------------------------------------
\* GET / and GET /health

NoProbe == [path |-> "", status |-> 0, json |-> [status |-> ""]]

root ==
    /\ lastProbe' = [path |-> "/", status |-> 200,
                     json |-> [service |-> "PHAR-MAA Twilio Gateway",
                               status |-> "running",
                               backend_configured |-> LOCAL_BACKEND_URL # PyNone]]
    /\ UNCHANGED <<LOCAL_BACKEND_URL, pc, route, form, outbound, outcome,
                   response, log>>

health ==
    /\ lastProbe' = [path |-> "/health", status |-> 200,
                     json |-> [status |-> "healthy"]]
    /\ UNCHANGED <<LOCAL_BACKEND_URL, pc, route, form, outbound, outcome,
                   response, log>>

-----------------------------------------------------------------------------

Init ==
    /\ LOCAL_BACKEND_URL \in UrlValues
    /\ pc = [r \in Requests |-> "idle"]
    /\ route = [r \in Requests |-> ""]
    /\ form = [r \in Requests |-> NoForm]
    /\ outbound = [r \in Requests |-> <<>>]
    /\ outcome = [r \in Requests |-> NoOutcome]
    /\ response = [r \in Requests |-> <<>>]
    /\ log = [r \in Requests |-> <<>>]
    /\ lastProbe = NoProbe

Next ==
    \/ \E r \in Requests : whatsapp_webhook(r)
    \/ \E r \in Requests : whatsapp_webhook_reply(r)
    \/ \E r \in Requests : sms_webhook(r)
    \/ \E r \in Requests : sms_webhook_reply(r)
    \/ root
    \/ health

Spec == Init /\ [][Next]_vars

TypeOK ==
    /\ LOCAL_BACKEND_URL \in UrlValues
    /\ \A r \in Requests :
         /\ pc[r] \in {"idle", "awaiting", "done"}
         /\ route[r] \in {"", WHATSAPP, SMS}
         /\ outcome[r] \in Outcomes \cup {NoOutcome}
-----------------------------------------------------------------------------
\* Vocabulary of the properties

Done(r) == pc[r] = "done"

\* The request's form was parsed and its From field is a non-empty string.
HasSender(r) == form[r].ok /\ Truthy(form[r].From)

\* The request's form was parsed and its From field is empty or absent.
NoSender(r) == form[r].ok /\ form[r].From \in {Absent, PyStr("")}

TimedOut(r) == outcome[r].exc = "ReadTimeout"

RepliedWith(r, st) == outcome[r].exc = "" /\ outcome[r].status = st

\* The downstream answered a JSON object whose "response" is a non-empty string.
HasReplyText(r) ==
    /\ outcome[r].exc = ""
    /\ outcome[r].body.kind = "object"
    /\ outcome[r].body.obj.response.t = "str"
    /\ outcome[r].body.obj.response.s # ""

ReplyText(r) == outcome[r].body.obj.response.s

EmptyAckXml == "<?xml version=\"1.0\" encoding=\"UTF-8\"?><Response></Response>"

\* The provider reply expected for each reply text, written out in full.
MessageXml(x) ==
    CASE x = "Hello" ->
           "<?xml version=\"1.0\" encoding=\"UTF-8\"?><Response><Message>Hello</Message></Response>"
      [] x = "a<b&c" ->
           "<?xml version=\"1.0\" encoding=\"UTF-8\"?><Response><Message>a<b&c</Message></Response>"
      [] OTHER -> "?"

AckOnly(r) ==
    response[r] = <<[status |-> 200, media_type |-> "application/xml",
                     content |-> EmptyAckXml]>>

MessageOnly(r, x) ==
    response[r] = <<[status |-> 200, media_type |-> "application/xml",
                     content |-> MessageXml(x)]>>

Records(r, level) == {i \in 1..Len(log[r]) : log[r][i].level = level}

ErrorRecords(r) == Cardinality(Records(r, "ERROR"))

ForwardedRecords(r, st) ==
    Cardinality({i \in Records(r, "INFO") :
                   log[r][i].msg = "Forwarded to backend: " \o ToString(st)})

-----------------------------------------------------------------------------
\* C1: every POST to either webhook route whose From field is non-empty is
\* answered with status 200 and content type application/xml, whatever the
\* downstream outcome (URL unset, unreachable, timeout, any status, non-JSON
\* or non-object body, empty, absent or non-empty reply text).
C1_AlwaysOkXml ==
    \A r \in Requests :
        (Done(r) /\ HasSender(r)) =>
            /\ Len(response[r]) = 1
            /\ response[r][1].status = 200
            /\ response[r][1].media_type = "application/xml"

\* A request with a sender whose downstream call was refused, and another
\* whose downstream answered 200 with a body that is not JSON.
C1_Witness ==
    \E r1, r2 \in Requests :
        /\ Done(r1) /\ HasSender(r1) /\ outcome[r1].exc = "ConnectError"
        /\ Done(r2) /\ HasSender(r2) /\ RepliedWith(r2, 200)
        /\ outcome[r2].body.kind = "text"

\* C2: a POST to either webhook route whose From field is empty or absent is
\* answered with the empty-acknowledgment XML and causes no outbound call,
\* whether or not the downstream URL is configured.
C2_MissingSenderAck ==
    \A r \in Requests :
        (pc[r] # "idle" /\ NoSender(r)) =>
            /\ Done(r)
            /\ AckOnly(r)
            /\ outbound[r] = <<>>

\* The downstream URL is configured; one request has no From field, the
\* other an empty one, one on each route.
C2_Witness ==
    /\ Truthy(LOCAL_BACKEND_URL)
    /\ \E r1, r2 \in Requests :
        /\ Done(r1) /\ form[r1].ok /\ form[r1].From = Absent /\ route[r1] = WHATSAPP
        /\ Done(r2) /\ form[r2].ok /\ form[r2].From = PyStr("") /\ route[r2] = SMS

\* C3: when the downstream URL is unset at startup, every POST to either
\* webhook route is answered with the empty-acknowledgment XML and no
\* outbound call is ever made, in any sequence of requests.
C3_UnsetUrlNoForward ==
    LOCAL_BACKEND_URL = PyNone =>
        \A r \in Requests :
            /\ outbound[r] = <<>>
            /\ pc[r] # "awaiting"
            /\ Done(r) => AckOnly(r)

\* The URL is unset and every request has been answered, one with a sender.
C3_Witness ==
    /\ LOCAL_BACKEND_URL = PyNone
    /\ \A r \in Requests : Done(r)
    /\ \E r \in Requests : HasSender(r)

\* C4: round trip: with a non-empty sender and a configured downstream URL,
\* a downstream reply of status 200 and JSON {"response": T} with T a
\* non-empty string yields exactly
\* <?xml version="1.0" encoding="UTF-8"?><Response><Message>T</Message></Response>
\* with T verbatim, on both routes.
C4_RoundTrip ==
    \A r \in Requests :
        (Done(r) /\ RepliedWith(r, 200) /\ HasReplyText(r)) =>
            MessageOnly(r, ReplyText(r))

\* Both routes have relayed a reply, one of them a text with markup characters.
C4_Witness ==
    \E r1, r2 \in Requests :
        /\ route[r1] = WHATSAPP /\ Done(r1) /\ RepliedWith(r1, 200)
        /\ HasReplyText(r1) /\ ReplyText(r1) = "a<b&c"
        /\ route[r2] = SMS /\ Done(r2) /\ RepliedWith(r2, 200)
        /\ HasReplyText(r2) /\ ReplyText(r2) = "Hello"

\* A downstream call that succeeded (a 2xx status) with non-empty reply text.
SucceededWithText(r) ==
    /\ outcome[r].exc = ""
    /\ outcome[r].status \in 200..299
    /\ HasReplyText(r)

\* C5: in every case other than a successful downstream call with non-empty
\* reply text (unreachable, timeout, non-success status, reply
\* {"response": ""}, reply {}, any exception raised while handling the
\* request) the response is the empty-acknowledgment XML and no exception
\* reaches the caller.
C5_OtherwiseAck ==
    \A r \in Requests :
        (Done(r) /\ ~SucceededWithText(r)) => AckOnly(r)

\* One request was answered after the downstream replied {"response": ""}
\* and another after an exception (a body that is not a JSON object).
C5_Witness ==
    \E r1, r2 \in Requests :
        /\ Done(r1) /\ RepliedWith(r1, 200)
        /\ outcome[r1].body = ObjBody(PyStr(""))
        /\ Done(r2) /\ RepliedWith(r2, 200) /\ outcome[r2].body.kind = "list"

C7_ChannelPerRoute ==
    \A r \in Requests : \A i \in 1..Len(outbound[r]) :
        outbound[r][i].json.channel =
            (IF route[r] = WHATSAPP THEN "whatsapp" ELSE "sms")

\* Envelopes were forwarded on both routes from forms whose fields name the
\* other channel.
C7_Witness ==
    \E r1, r2 \in Requests :
        /\ route[r1] = SMS /\ Len(outbound[r1]) = 1
        /\ form[r1].From = PyStr("whatsapp:+1")
        /\ route[r2] = WHATSAPP /\ Len(outbound[r2]) = 1
        /\ form[r2].From = PyStr("sms")

\* C8: single-attempt forwarding: in every interleaving each inbound POST
\* causes at most one outbound call to <downstream>/api/messages/ingest, no
\* call follows a failure, and each request moves once from received to
\* answered, with exactly one response.
C8_SingleAttempt ==
    /\ [](\A r \in Requests :
            /\ Len(outbound[r]) <= 1
            /\ \A i \in 1..Len(outbound[r]) :
                 outbound[r][i].url = LOCAL_BACKEND_URL.s \o "/api/messages/ingest"
            /\ Len(response[r]) = (IF Done(r) THEN 1 ELSE 0))
    /\ [][\A r \in Requests :
            /\ outcome[r] # NoOutcome => outbound'[r] = outbound[r]
            /\ Done(r) => /\ pc'[r] = "done"
                          /\ response'[r] = response[r]
                          /\ outbound'[r] = outbound[r]]_vars

\* One request was answered after its only call failed while the call of
\* another request is still in flight.
C8_Witness ==
    \E r1, r2 \in Requests :
        /\ Done(r1) /\ TimedOut(r1) /\ Len(outbound[r1]) = 1
        /\ pc[r2] = "awaiting" /\ Len(outbound[r2]) = 1

\* C9: GET / and GET /health succeed, and for every startup value of the
\* downstream URL backend_configured is true exactly when the webhook routes
\* forward a message with a sender and false exactly when they skip it.
C9_ConfiguredIffForwards ==
    /\ lastProbe # NoProbe => lastProbe.status = 200
    /\ lastProbe.path = "/" =>
         \A r \in Requests :
            (pc[r] # "idle" /\ HasSender(r)) =>
                (lastProbe.json.backend_configured <=> Len(outbound[r]) = 1)

\* C10 as stated: every downstream reply with a 2xx status and non-empty
\* reply text is relayed in a <Message> element.
C10_Any2xxRelayed ==
    \A r \in Requests :
        (Done(r) /\ SucceededWithText(r)) => MessageOnly(r, ReplyText(r))

\* C10 amended: a downstream reply with status 200 and non-empty reply text
\* is relayed in a <Message> element; a reply with any other status, 201
\* included, gets the empty acknowledgment, as do empty reply text and
\* failures.
C10_Only200Relayed ==
    \A r \in Requests :
        Done(r) =>
            IF RepliedWith(r, 200) /\ HasReplyText(r)
            THEN MessageOnly(r, ReplyText(r))
            ELSE AckOnly(r)

\* One reply with status 200 and one with status 201, both with reply text.
C10_Witness ==
    \E r1, r2 \in Requests :
        /\ Done(r1) /\ RepliedWith(r1, 200) /\ HasReplyText(r1)
        /\ Done(r2) /\ RepliedWith(r2, 201) /\ HasReplyText(r2)
====
